---- MODULE Spec2Model ----
(***************************************************************************)
(* A model of structuredlogger/tracer.py: the TracerContextManager scope   *)
(* stack, the enrich / convert / dispatch pipeline run by __exit__, and    *)
(* the sinks (ConsoleTracer, TracerInterface) the records are shipped to.  *)
(*                                                                         *)
(* Python objects are modelled by reference: every context dictionary      *)
(* created by __enter__ lives in `contexts` under its identity (1, 2, ...),*)
(* and _context_stack holds identities.  A dictionary is a function from   *)
(* its keys to its values.  datetime, timedelta, str and float values are  *)
(* tagged pairs <<type, value>>, so a conversion changes the value.        *)
(***************************************************************************)
EXTENDS Integers, Sequences, FiniteSets, TLC

(* ------------------------------ bounds --------------------------------- *)
\* scopes opened in one run, over all tracers
MaxOpens == 2
\* largest reading of the clock
MaxClock == 1
\* current_data.update calls in one run
MaxWrites == 2
\* lines on stdout and on the diagnostic loggers up to which the program
\* still calls a console sink directly
MaxLines == 2

(* ------------------------- the finite universe ------------------------- *)
Tracers == {"t1"}
Threads == {"MainThread"}
\* the sink objects: "console" is a ConsoleTracer, "custom" a user-supplied sink
\* that consumes what it is given, "abstract" a sink that leaves
\* TracerInterface.trace as it is, so that every call of it raises
Sinks == {"console", "custom", "abstract"}
\* keys and values a caller writes into data; "obj" is a value json.dumps rejects
Keys == {"a", "b"}
Vals == {"x", "obj"}
\* the updates a caller makes: data[key] = value
Updates == { << "a", "x" >>, << "b", "obj" >> }
\* caller frames from which __exit__ is invoked
Sites == { [file |-> "example.py", line |-> 6, function_name |-> "test"],
           [file |-> "other.py",   line |-> 3, function_name |-> "finish"] }
\* caller frames from which __enter__ is invoked (the code never looks at them)
EnterSites == { [file |-> "example.py", line |-> 6, function_name |-> "test"] }

\* Python's None, where a reference (a positive identity) is expected
None == 0

(* ------------------- reserved keys of a context dict ------------------- *)
_data_key == "data"
_start_time_key == "start_time"
_duration_key == "duration"
_file_key == "file"
_line_key == "line"
_function_key == "function_name"
_thread_key == "thread"
_pid_key == "pid"
_process_name_key == "process_name"

VARIABLES
    _tracer_shippers,  \* tracer -> its ordered sink list
    _context_stack,    \* tracer -> sequence of context identities, top last
    contexts,          \* identity -> the context dict (all dicts ever created)
    __pid,             \* tracer -> pid cached at construction
    __process_name,    \* tracer -> process name cached at construction
    clock,             \* the wall clock read by Utils.now()
    calls,             \* every trace(payload=...) invocation made by _trace, in order
    log,               \* lines written to the diagnostic loggers, in order
    last,              \* outcome of the most recent call made by the caller
    opened,            \* history: identity -> who opened the scope, where and when
    closed,            \* history: identity -> where and when the scope was closed
    written,           \* history: identity -> what was written while it was the top
    nwrites,           \* history: number of current_data.update calls so far
    stdout,            \* the JSON lines ConsoleTracer.trace has printed, by context identity
    cmdline,           \* what reading /proc/<pid>/cmdline yields in this process
    _logger,           \* class -> its class-level diagnostic logger (its name), or "None"
    _logger_lock,      \* class -> the thread holding its _logger_lock, or "free"
    loggers,           \* the logging module: logger name -> handlers attached so far
    boot,              \* thread -> where it is in constructing objects
    assigned           \* history: class -> number of assignments to cls._logger

\* the state of the logger bootstrap
bootVars == << _logger, _logger_lock, loggers, boot, assigned >>

vars == << _tracer_shippers, _context_stack, contexts, __pid, __process_name,
           clock, calls, log, last, opened, closed, written, nwrites, stdout,
           cmdline, bootVars >>

(* ------------------------- Python primitives --------------------------- *)
EmptyDict == [k \in {} |-> None]

\* dict.update(other): keys of other are set, the rest is kept
DictUpdate(d, other) == other @@ d

\* list[i] with Python's negative indices; IndexError when out of range
PyGetItem(list, i) ==
    LET j == IF i < 0 THEN Len(list) + i ELSE i
    IN  IF j < 0 \/ j >= Len(list)
        THEN [exc |-> "IndexError", ret |-> None]
        ELSE [exc |-> "none", ret |-> list[j + 1]]

\* a pop that returns the last item and leaves it on the list
PyPopKeep(list) ==
    IF Len(list) = 0
    THEN [exc |-> "IndexError", ret |-> None, rest |-> list]
    ELSE [exc |-> "none", ret |-> list[Len(list)], rest |-> list]

\* list.pop(): IndexError on an empty list, else the last item and the shorter list
PyPop(list) ==
    IF Len(list) = 0
    THEN [exc |-> "IndexError", ret |-> None, rest |-> list]
    ELSE [exc |-> "none", ret |-> list[Len(list)],
          rest |-> SubSeq(list, 1, Len(list) - 1)]

\* Utils.now(): the current reading of the clock, as a datetime
now == << "datetime", clock >>

\* a subtraction with its operands swapped
TimeDiffSwapped(end, start) ==
    CASE end[1] = "datetime" /\ start[1] = "datetime"
         -> << "timedelta", start[2] - end[2] >>

\* datetime - datetime
TimeDiff(end, start) ==
    CASE end[1] = "datetime" /\ start[1] = "datetime"
         -> << "timedelta", end[2] - start[2] >>

\* datetime.isoformat()
isoformat(dt) == CASE dt[1] = "datetime" -> << "str", dt[2] >>

\* timedelta.total_seconds()
total_seconds(td) == CASE td[1] = "timedelta" -> << "float", td[2] >>

\* whether json.dumps accepts the payload: datetime and timedelta objects and
\* arbitrary objects are rejected with a TypeError
JsonSerializable(payload) ==
    /\ \A k \in {_start_time_key, _duration_key} \cap DOMAIN payload :
          payload[k][1] \in {"str", "float"}
    /\ \A k \in DOMAIN payload[_data_key] : payload[_data_key][k] # "obj"

\* the identities of the contexts made so far
Ids == 1..Len(contexts)

(* ------------------------------- sinks --------------------------------- *)
\* a ConsoleTracer.trace without its try / except: an error of json.dumps
\* leaves the method
ConsoleTraceNoCatch(ref, objs) ==
    IF ref = None THEN "skipped"
    ELSE IF JsonSerializable(objs[ref]) THEN "delivered"
    ELSE "raised"

\* ConsoleTracer.trace: prints the payload as JSON; an error of json.dumps is
\* caught and logged by the sink itself; nothing is done for payload None
ConsoleTrace(ref, objs) ==
    IF ref = None THEN "skipped"
    ELSE IF JsonSerializable(objs[ref]) THEN "delivered"
    ELSE "absorbed"

\* TracerInterface.trace of a user-supplied sink: the base method raises, a
\* working subclass consumes the payload
CustomTrace(s, ref, objs) ==
    IF s = "abstract" THEN "raised" ELSE "delivered"

\* trace_shipper.trace(payload=payload) on whatever object the list holds
ShipperTrace(s, ref, objs) ==
    IF s = "console" THEN ConsoleTrace(ref, objs) ELSE CustomTrace(s, ref, objs)

\* one invocation of a sink, as recorded in `calls`
Call(tr, pos, ref, objs) ==
    LET s == _tracer_shippers[tr][pos]
    IN  [ tracer |-> tr, pos |-> pos, sink |-> s, id |-> ref,
          payload |-> objs[ref], outcome |-> ShipperTrace(s, ref, objs) ]

\* the line an invocation leaves on a diagnostic logger, if any: a raising sink
\* is logged by the tracer, a console failure by the console sink
LogLine(c) ==
    [ logger |-> IF c.outcome = "raised" THEN "TracerContextManager"
                 ELSE "ConsoleTracer",
      sink |-> c.sink, id |-> c.id ]

RECURSIVE LogLines(_)
LogLines(cs) ==
    IF cs = << >> THEN << >>
    ELSE IF Head(cs).outcome \in {"raised", "absorbed"}
         THEN << LogLine(Head(cs)) >> \o LogLines(Tail(cs))
         ELSE LogLines(Tail(cs))

(* ------------------------ TracerContextManager ------------------------- *)
\* __init__: the sink list (a single console sink when none is given)
InitShippers(arg) == IF arg.given THEN arg.list ELSE << "console" >>

\* a __process_name that answers a failed read with a placeholder name
ProcessNamePlaceholder(proc) ==
    IF proc.ok THEN SubSeq(proc.output, 1, Len(proc.output) - 1)
    ELSE << "unknown" >>

\* __init__.__process_name: split the cmdline on NUL, drop the last piece,
\* join with spaces (a tuple of words stands for the joined string); the
\* empty string when reading the cmdline fails
ProcessName(proc) ==
    IF proc.ok THEN SubSeq(proc.output, 1, Len(proc.output) - 1) ELSE << >>

\* a current_data that answers an empty stack with no context instead of an error
current_data_default(tr) ==
    IF Len(_context_stack[tr]) = 0
    THEN [exc |-> "none", ret |-> None]
    ELSE PyGetItem(_context_stack[tr], -1)

\* a current_data that reads the bottom of the stack, self._context_stack[0]
current_data_bottom(tr) == PyGetItem(_context_stack[tr], 0)

\* current_data: self._context_stack[-1][self._data_key], as the identity of
\* the context whose data mapping is returned
current_data(tr) == PyGetItem(_context_stack[tr], -1)

\* a loop without the try / except: the first raising sink ends it and its
\* exception leaves _trace
TraceLoopNoCatch(tr, ref, objs) ==
    LET cs == [ p \in 1..Len(_tracer_shippers[tr]) |-> Call(tr, p, ref, objs) ]
        bad == { p \in DOMAIN cs : cs[p].outcome = "raised" }
        stop == IF bad = {} THEN Len(cs)
                ELSE CHOOSE p \in bad : \A q \in bad : p <= q
    IN  [ calls |-> SubSeq(cs, 1, stop), log |-> << >>,
          exc |-> IF bad = {} THEN "none" ELSE "NotImplementedError" ]

\* a loop that walks the sink list from its end
TraceLoopReversed(tr, ref, objs) ==
    LET n == Len(_tracer_shippers[tr])
        cs == [ p \in 1..n |-> Call(tr, n + 1 - p, ref, objs) ]
    IN  [ calls |-> cs, log |-> LogLines(cs), exc |-> "none" ]

\* the loop of _trace over the sink list: an exception of a sink is caught and
\* logged, and the loop goes on to the next sink
TraceLoop(tr, ref, objs) ==
    LET cs == [ p \in 1..Len(_tracer_shippers[tr]) |-> Call(tr, p, ref, objs) ]
    IN  [ calls |-> cs, log |-> LogLines(cs), exc |-> "none" ]

\* _trace: payload None stands for the top of the stack (an IndexError when
\* there is none); then every sink is called in list order
_trace(tr, payload, objs) ==
    LET top == PyGetItem(_context_stack[tr], -1)
    IN  IF payload = None /\ top.exc # "none"
        THEN [ calls |-> << >>, log |-> << >>, exc |-> top.exc ]
        ELSE TraceLoop(tr, IF payload = None THEN top.ret ELSE payload, objs)

\* inspect.getouterframes(frame) inside _enrich: _enrich itself, its caller
\* __exit__, and then the frame that called __exit__
OuterFrames(caller) ==
    << [file |-> "tracer.py", line |-> 156, function_name |-> "_enrich"],
       [file |-> "tracer.py", line |-> 204, function_name |-> "__exit__"],
       caller >>

\* outer_frames[1], the frame of __exit__
EnrichFrameOneUp(caller) == OuterFrames(caller)[2]

\* outer_frames[2]
EnrichFrame(caller) == OuterFrames(caller)[3]

\* an enrichment that forgets the process name
EnrichmentNoProcessName(tr, payload, caller, thread_name) ==
    LET frame == OuterFrames(caller)[3]
    IN  (_file_key :> frame.file) @@
        (_line_key :> frame.line) @@
        (_function_key :> frame.function_name) @@
        (_thread_key :> thread_name) @@
        (_pid_key :> __pid[tr]) @@
        (_duration_key :> TimeDiff(now, payload[_start_time_key]))

\* an enrichment that also resets the data key
EnrichmentWithData(tr, payload, caller, thread_name) ==
    LET frame == OuterFrames(caller)[3]
    IN  (_file_key :> frame.file) @@
        (_line_key :> frame.line) @@
        (_function_key :> frame.function_name) @@
        (_thread_key :> thread_name) @@
        (_pid_key :> __pid[tr]) @@
        (_process_name_key :> __process_name[tr]) @@
        (_duration_key :> TimeDiff(now, payload[_start_time_key])) @@
        (_data_key :> EmptyDict)

\* the keys _enrich sets, with their values
Enrichment(tr, payload, caller, thread_name) ==
    LET frame == EnrichFrame(caller)
    IN  (_file_key :> frame.file) @@
        (_line_key :> frame.line) @@
        (_function_key :> frame.function_name) @@
        (_thread_key :> thread_name) @@
        (_pid_key :> __pid[tr]) @@
        (_process_name_key :> __process_name[tr]) @@
        (_duration_key :> TimeDiff(now, payload[_start_time_key]))

\* an _enrich that names the thread which opened the scope
_enrich_opener_thread(tr, payload, objs, caller, thread_name) ==
    IF payload = None THEN objs
    ELSE [ objs EXCEPT ![payload] =
             DictUpdate(@, Enrichment(tr, @, caller, opened[payload].thread)) ]

\* _enrich: nothing for None; else the context is updated in place with call
\* site, thread, pid, process name and duration
_enrich(tr, payload, objs, caller, thread_name) ==
    IF payload = None THEN objs
    ELSE [ objs EXCEPT ![payload] =
             DictUpdate(@, Enrichment(tr, @, caller, thread_name)) ]

\* a _convert that leaves the record as it is, except for the duration
_convert_duration_only(payload, objs) ==
    IF payload = None THEN objs
    ELSE [ objs EXCEPT ![payload][_duration_key] = total_seconds(@) ]

\* _convert: nothing for None; else start_time becomes its ISO string and
\* duration a number of seconds, in place
_convert(payload, objs) ==
    IF payload = None THEN objs
    ELSE [ objs EXCEPT ![payload][_start_time_key] = isoformat(@),
                       ![payload][_duration_key] = total_seconds(@) ]

\* an append to a list that all tracer instances share (a class attribute)
PushShared(stacks, tr, ref) == [t \in DOMAIN stacks |-> Append(stacks[t], ref)]

\* an append that puts the new context on the list twice
PushTwice(stacks, tr, ref) == [stacks EXCEPT ![tr] = Append(Append(@, ref), ref)]

\* self._context_stack.append(context) on one tracer instance: the list is an
\* attribute of the instance, made in __init__
Push(stacks, tr, ref) == [stacks EXCEPT ![tr] = Append(@, ref)]

\* __enter__: push a fresh context {start_time: now, data: {}}
__enter__(tr, th, caller) ==
    /\ Len(contexts) < MaxOpens
    /\ LET context == (_start_time_key :> now) @@ (_data_key :> EmptyDict)
           ref == Len(contexts) + 1
       IN  /\ contexts' = Append(contexts, context)
           /\ _context_stack' = Push(_context_stack, tr, ref)
           /\ opened' = Append(opened, [tracer |-> tr, site |-> caller,
                                        thread |-> th, at |-> clock,
                                        enclosing |-> _context_stack[tr]])
           /\ written' = Append(written, EmptyDict)
           /\ last' = [op |-> "__enter__", tracer |-> tr, thread |-> th,
                       exc |-> "none", ret |-> ref]
    /\ UNCHANGED << _tracer_shippers, __pid, __process_name, clock, calls, log,
                    closed, nwrites, stdout, cmdline, bootVars >>

\* an __exit__ that returns True
ExitReturnTrue == TRUE

\* what __exit__ returns: False, so an exception of the with block goes on
ExitReturn == FALSE

\* the exception the caller of __exit__ is left with: the one of the with block,
\* unless __exit__ returned a true value
Propagated(exc_type) == IF ExitReturn THEN "none" ELSE exc_type

\* the JSON lines the console sinks printed among these invocations
RECURSIVE Printed(_)
Printed(cs) ==
    IF cs = << >> THEN << >>
    ELSE IF Head(cs).sink = "console" /\ Head(cs).outcome = "delivered"
         THEN << Head(cs).id >> \o Printed(Tail(cs))
         ELSE Printed(Tail(cs))

\* the body of __exit__ once the top context is popped: enrich, convert, ship,
\* return False
ExitShip(tr, th, caller, exc_type, popped) ==
    LET ref == popped.ret
        enriched == _enrich(tr, ref, contexts, caller, th)
        converted == _convert(ref, enriched)
        shipped == _trace(tr, ref, converted)
    IN  /\ _context_stack' = [_context_stack EXCEPT ![tr] = popped.rest]
        /\ contexts' = converted
        /\ calls' = calls \o shipped.calls
        /\ log' = log \o shipped.log
        /\ stdout' = stdout \o Printed(shipped.calls)
        /\ closed' = IF ref = None THEN closed
                     ELSE (ref :> [site |-> caller, thread |-> th, at |-> clock,
                                   exc |-> exc_type])
                          @@ closed
        /\ last' = [op |-> "__exit__", tracer |-> tr, thread |-> th,
                    exc |-> IF shipped.exc # "none" THEN shipped.exc
                            ELSE Propagated(exc_type),
                    ret |-> ref]

\* an __exit__ that returns quietly when there is nothing to pop
__exit__tolerant(tr, th, caller, exc_type) ==
    /\ LET popped == PyPop(_context_stack[tr])
       IN  IF popped.exc # "none"
           THEN /\ last' = [op |-> "__exit__", tracer |-> tr, thread |-> th,
                            exc |-> "none", ret |-> None]
                /\ UNCHANGED << _context_stack, contexts, calls, log, closed,
                                stdout >>
           ELSE ExitShip(tr, th, caller, exc_type, popped)
    /\ UNCHANGED << _tracer_shippers, __pid, __process_name, clock, opened,
                    written, nwrites, cmdline, bootVars >>

\* __exit__: pop the top context and ship it; the IndexError of popping an
\* empty stack reaches the caller before anything else is done
__exit__(tr, th, caller, exc_type) ==
    /\ LET popped == PyPop(_context_stack[tr])
       IN  IF popped.exc # "none"
           THEN /\ last' = [op |-> "__exit__", tracer |-> tr, thread |-> th,
                            exc |-> popped.exc, ret |-> None]
                /\ UNCHANGED << _context_stack, contexts, calls, log, closed,
                                stdout >>
           ELSE ExitShip(tr, th, caller, exc_type, popped)
    /\ UNCHANGED << _tracer_shippers, __pid, __process_name, clock, opened,
                    written, nwrites, cmdline, bootVars >>

\* reading the current_data property
ReadCurrentData(tr, th) ==
    /\ last' = [op |-> "current_data", tracer |-> tr, thread |-> th,
                exc |-> current_data(tr).exc, ret |-> current_data(tr).ret]
    /\ UNCHANGED << _tracer_shippers, _context_stack, contexts, __pid,
                    __process_name, clock, calls, log, opened, closed,
                    written, nwrites, stdout, cmdline, bootVars >>

\* t.current_data.update({k: v}), as in the example: the property is read,
\* and unless that read raised, the mapping it returned is updated
UpdateCurrentData(tr, th, k, v) ==
    /\ nwrites < MaxWrites
    /\ LET got == current_data(tr)
       IN  IF got.exc # "none"
           THEN /\ last' = [op |-> "current_data", tracer |-> tr,
                            thread |-> th, exc |-> got.exc, ret |-> got.ret]
                /\ UNCHANGED << contexts, written, nwrites >>
           ELSE LET top == PyGetItem(_context_stack[tr], -1).ret
                IN  /\ contexts' = [contexts EXCEPT ![got.ret][_data_key] =
                                        DictUpdate(@, k :> v)]
                    /\ written' = [written EXCEPT ![top] = DictUpdate(@, k :> v)]
                    /\ nwrites' = nwrites + 1
                    /\ last' = [op |-> "update", tracer |-> tr, thread |-> th,
                                exc |-> "none", ret |-> got.ret]
    /\ UNCHANGED << _tracer_shippers, _context_stack, __pid, __process_name,
                    clock, calls, log, opened, closed, stdout, cmdline,
                    bootVars >>

\* the wall clock advances
Tick ==
    /\ clock < MaxClock
    /\ clock' = clock + 1
    /\ UNCHANGED << _tracer_shippers, _context_stack, contexts, __pid,
                    __process_name, calls, log, last, opened, closed, written,
                    nwrites, stdout, cmdline, bootVars >>

\* ConsoleTracer().trace(payload) called by the program itself, with None or
\* with one of the dictionaries it has at hand
ConsoleTracerTrace(th, ref) ==
    /\ Len(stdout) + Len(log) < MaxLines
    /\ LET outcome == ConsoleTrace(ref, contexts)
       IN  /\ stdout' = IF outcome = "delivered" THEN Append(stdout, ref)
                        ELSE stdout
           /\ log' = IF outcome = "absorbed"
                     THEN Append(log, [logger |-> "ConsoleTracer",
                                       sink |-> "console", id |-> ref])
                     ELSE log
           /\ last' = [op |-> "trace", tracer |-> "none", thread |-> th,
                       exc |-> IF outcome = "raised" THEN "TypeError"
                               ELSE "none",
                       ret |-> None, payload |-> ref]
    /\ UNCHANGED << _tracer_shippers, _context_stack, contexts, __pid,
                    __process_name, clock, calls, opened, closed, written,
                    nwrites, cmdline, bootVars >>

(* --------------------------- construction ------------------------------ *)
\* the tracer_shippers argument of __init__
ShipperArgs ==
    { [given |-> FALSE, list |-> << >>],
      [given |-> TRUE, list |-> << "abstract", "custom" >>] }

\* what "cat /proc/<pid>/cmdline" yields: the NUL-separated pieces, or a failure
ProcOk == [ok |-> TRUE, output |-> << "python", "example.py", "" >>]
ProcFailed == [ok |-> FALSE, output |-> << >>]

\* os.getpid()
ProcessId == 4242

\* the lines the failed cmdline reads leave on the diagnostic logger
RECURSIVE InitLog(_, _)
InitLog(proc, trs) ==
    IF trs = {} \/ proc.ok THEN << >>
    ELSE LET t == CHOOSE x \in trs : TRUE
         IN  << [logger |-> "TracerContextManager", sink |-> "none", id |-> None] >>
             \o InitLog(proc, trs \ {t})

\* the classes that keep a class-level logger, and the name of each one's logger
Classes == {"ConsoleTracer", "TracerContextManager"}
LoggerName(cls) == << "tracer.py", cls >>

\* the threads that construct objects at the start of a process
BootThreads == {"Thread-1", "Thread-2"}

\* what a thread constructs without supplying a logger, as the classes whose
\* get_logger runs, in order: a ConsoleTracer, a TracerContextManager with its
\* default sink, a TracerContextManager with given sinks
Constructions ==
    { << "ConsoleTracer" >>,
      << "ConsoleTracer", "TracerContextManager" >>,
      << "TracerContextManager" >> }

\* the state of everything but the logger bootstrap
tracerVars == << _tracer_shippers, _context_stack, contexts, __pid,
                 __process_name, clock, calls, log, last, opened, closed,
                 written, nwrites, stdout, cmdline >>

\* a lock that lets every thread in, held or not
CanAcquireAlways(lock) == TRUE

\* threading.Lock: a thread enters "with lock" only while nobody holds it
CanAcquire(lock) == lock = "free"

\* the class whose init_logger this thread is running
BootClass(th) == Head(boot[th].todo)

\* init_logger, "with lock:": acquire the class's lock
Acquire(th) ==
    /\ boot[th].pc = "with lock"
    /\ CanAcquire(_logger_lock[BootClass(th)])
    /\ _logger_lock' = [_logger_lock EXCEPT ![BootClass(th)] = th]
    /\ boot' = [boot EXCEPT ![th].pc = "if"]
    /\ UNCHANGED << _logger, loggers, assigned, tracerVars >>

\* init_logger, "if cls._logger is None:"
CheckNone(th) ==
    /\ boot[th].pc = "if"
    /\ boot' = [boot EXCEPT ![th].pc = IF _logger[BootClass(th)] = "None"
                                       THEN "getLogger" ELSE "release"]
    /\ UNCHANGED << _logger, _logger_lock, loggers, assigned, tracerVars >>

\* init_logger, logging.getLogger(name): the logging module makes the logger of
\* a name on first request and hands out that same logger afterwards
GetLogger(th) ==
    /\ boot[th].pc = "getLogger"
    /\ LET name == LoggerName(BootClass(th))
       IN  /\ loggers' = IF name \in DOMAIN loggers THEN loggers
                         ELSE (name :> 0) @@ loggers
           /\ boot' = [boot EXCEPT ![th].pc = "addHandler", ![th].logger = name]
    /\ UNCHANGED << _logger, _logger_lock, assigned, tracerVars >>

\* init_logger, logger.addHandler(ch): one more handler on that logger
AddHandler(th) ==
    /\ boot[th].pc = "addHandler"
    /\ loggers' = [loggers EXCEPT ![boot[th].logger] = @ + 1]
    /\ boot' = [boot EXCEPT ![th].pc = "assign"]
    /\ UNCHANGED << _logger, _logger_lock, assigned, tracerVars >>

\* init_logger, "cls._logger = logger"
AssignLogger(th) ==
    /\ boot[th].pc = "assign"
    /\ _logger' = [_logger EXCEPT ![BootClass(th)] = boot[th].logger]
    /\ assigned' = [assigned EXCEPT ![BootClass(th)] = @ + 1]
    /\ boot' = [boot EXCEPT ![th].pc = "release"]
    /\ UNCHANGED << _logger_lock, loggers, tracerVars >>

\* init_logger, the end of "with lock:": release, and go on with the next
\* object this thread constructs
Release(th) ==
    /\ boot[th].pc = "release"
    /\ _logger_lock' = [_logger_lock EXCEPT ![BootClass(th)] = "free"]
    /\ boot' = [boot EXCEPT ![th].todo = Tail(@),
                            ![th].made = @ \cup {BootClass(th)},
                            ![th].pc = IF Tail(boot[th].todo) = << >>
                                       THEN "done" ELSE "with lock"]
    /\ UNCHANGED << _logger, loggers, assigned, tracerVars >>

\* the bootstrap before any object exists: the class attributes as the class
\* bodies set them, each thread about to construct something
BootStart ==
    /\ _logger = [c \in Classes |-> "None"]
    /\ _logger_lock = [c \in Classes |-> "free"]
    /\ loggers = << >>
    /\ boot \in [BootThreads -> { [pc |-> "with lock", todo |-> t,
                                   logger |-> "None", made |-> {}] :
                               t \in Constructions }]
    /\ assigned = [c \in Classes |-> 0]

\* the bootstrap once the objects exist and the classes cs ran init_logger: each
\* has its logger, with its one handler, and no thread is constructing anything
BootAfter(cs) ==
    /\ _logger = [c \in Classes |-> IF c \in cs THEN LoggerName(c) ELSE "None"]
    /\ _logger_lock = [c \in Classes |-> "free"]
    /\ loggers = [n \in {LoggerName(c) : c \in cs} |-> 1]
    /\ boot = << >>
    /\ assigned = [c \in Classes |-> IF c \in cs THEN 1 ELSE 0]

\* the classes whose init_logger ran once tracers with these sinks exist
BootClasses(shippers) ==
    {"TracerContextManager"} \cup
    IF \E t \in DOMAIN shippers : \E i \in 1..Len(shippers[t]) :
           shippers[t][i] = "console"
    THEN {"ConsoleTracer"} ELSE {}

\* the state once the tracers trs are constructed, each with one of the
\* arguments args, in a process whose cmdline reads as one of procs
InitOver(trs, args, procs) ==
    /\ _tracer_shippers \in [trs -> {InitShippers(a) : a \in args}]
    /\ _context_stack = [t \in trs |-> << >>]
    /\ contexts = << >>
    /\ __pid = [t \in trs |-> ProcessId]
    /\ cmdline \in procs
    /\ __process_name = [t \in trs |-> ProcessName(cmdline)]
    /\ log = InitLog(cmdline, trs)
    /\ clock = 0
    /\ calls = << >>
    /\ last = [op |-> "__init__", tracer |-> "t1", thread |-> "MainThread",
               exc |-> "none", ret |-> None]
    /\ opened = << >>
    /\ closed = << >>
    /\ written = << >>
    /\ nwrites = 0
    /\ stdout = << >>

\* the state once every tracer is constructed
InitFrom(procs) ==
    /\ InitOver(Tracers, ShipperArgs, procs)
    /\ BootAfter(BootClasses(_tracer_shippers))

\* a process whose cmdline can be read
Init == InitFrom({ProcOk})

\* the calls a program makes: tracers trs used from threads ths, scopes closed
\* from the frames sites, with the updates ups, the with block ending with one
\* of excs ("none": it ends normally)
CallsOver(trs, ths, sites, ups, excs) ==
    \/ \E tr \in trs, th \in ths, c \in EnterSites : __enter__(tr, th, c)
    \/ \E tr \in trs, th \in ths, c \in sites, e \in excs : __exit__(tr, th, c, e)
    \/ \E tr \in trs, th \in ths : ReadCurrentData(tr, th)
    \/ \E tr \in trs, th \in ths, u \in ups : UpdateCurrentData(tr, th, u[1], u[2])

\* those calls, while the wall clock advances
StepOver(trs, ths, sites, ups, excs) ==
    \/ CallsOver(trs, ths, sites, ups, excs)
    \/ Tick

Next == StepOver(Tracers, Threads, Sites, Updates, {"none"})

Spec == Init /\ [][Next]_vars

\* a program that also calls a console sink directly; its tracer has a
\* console sink followed by a custom one
ConsoleArgs == { [given |-> TRUE, list |-> << "console", "custom" >>] }

\* the one thing that program writes: a value json.dumps rejects
ConsoleUpdates == { << "b", "obj" >> }

InitConsole ==
    /\ InitOver(Tracers, ConsoleArgs, {ProcOk})
    /\ BootAfter(BootClasses(_tracer_shippers))

NextConsole ==
    \/ StepOver(Tracers, Threads, EnterSites, ConsoleUpdates, {"none"})
    \/ \E th \in Threads, ref \in {None} \cup Ids : ConsoleTracerTrace(th, ref)

SpecConsole == InitConsole /\ [][NextConsole]_vars

\* a tracer constructed in a process whose cmdline may be unreadable
InitProc ==
    /\ InitOver(Tracers, ShipperArgs, {ProcOk, ProcFailed})
    /\ BootAfter(BootClasses(_tracer_shippers))

NextProc == StepOver(Tracers, Threads, EnterSites, ConsoleUpdates, {"none"})

SpecProc == InitProc /\ [][NextProc]_vars

\* what the with block hands __exit__ as exc_type: nothing, or its exception
BlockOutcomes == {"none", "ValueError"}

\* a program whose with blocks may raise
NextRaise == StepOver(Tracers, Threads, EnterSites, ConsoleUpdates, BlockOutcomes)

SpecRaise == Init /\ [][NextRaise]_vars

\* a program with two tracers that were both given the same sink object
TwoTracers == {"t1", "t2"}
SharedSinkArgs == { [given |-> TRUE, list |-> << "custom" >>] }

InitTwo ==
    /\ InitOver(TwoTracers, SharedSinkArgs, {ProcOk})
    /\ BootAfter(BootClasses(_tracer_shippers))

\* the one thing that program writes, through either tracer
PlainUpdates == { << "a", "x" >> }

NextTwo == StepOver(TwoTracers, Threads, EnterSites, PlainUpdates, {"none"})

SpecTwo == InitTwo /\ [][NextTwo]_vars

\* a program that uses one tracer from two threads, so quickly that the clock
\* reads the same throughout
TwoThreads == {"MainThread", "Thread-1"}

InitThreads ==
    /\ InitOver(Tracers, SharedSinkArgs, {ProcOk})
    /\ BootAfter(BootClasses(_tracer_shippers))

NextThreads == CallsOver(Tracers, TwoThreads, EnterSites, PlainUpdates, {"none"})

SpecThreads == InitThreads /\ [][NextThreads]_vars

\* a program that opens, writes and closes scopes on one tracer while the
\* clock advances
NextClock == StepOver(Tracers, Threads, Sites, PlainUpdates, {"none"})

SpecClock == InitThreads /\ [][NextClock]_vars

\* threads constructing their first objects, before any tracer is in use
InitLogger == InitOver({}, ShipperArgs, {ProcOk}) /\ BootStart

NextLogger ==
    \/ \E th \in BootThreads : Acquire(th)
    \/ \E th \in BootThreads : CheckNone(th)
    \/ \E th \in BootThreads : GetLogger(th)
    \/ \E th \in BootThreads : AddHandler(th)
    \/ \E th \in BootThreads : AssignLogger(th)
    \/ \E th \in BootThreads : Release(th)

SpecLogger == InitLogger /\ [][NextLogger]_vars

(* ------------------------- reading the state -------------------------- *)
\* every context ever created, by identity
\* the nine reserved keys of a finished record
ReservedKeys ==
    { _data_key, _start_time_key, _duration_key, _file_key, _line_key,
      _function_key, _thread_key, _pid_key, _process_name_key }

\* the keys added at close
EnrichmentKeys ==
    { _duration_key, _file_key, _line_key, _function_key, _thread_key,
      _pid_key, _process_name_key }

\* the scope of context id is still open
OnStack(id) ==
    \E tr \in DOMAIN _context_stack : \E i \in 1..Len(_context_stack[tr]) :
        _context_stack[tr][i] = id

\* the invocations of sinks that were handed context id
CallsOf(id) == { i \in 1..Len(calls) : calls[i].id = id }

\* the scopes a tracer has opened so far
OpenedBy(tr) == { id \in Ids : opened[id].tracer = tr }

(* ------------------------------- C1 ------------------------------------ *)
\* C1: a record is never handed to a sink while its scope is open; once its
\* scope is closed it has been handed exactly once to each sink of its
\* tracer's list, and never again; so when every scope is closed (N opens, N
\* closes) each sink of the list has been handed exactly N records.
C1_DispatchedExactlyOnce ==
    /\ \A i \in 1..Len(calls) : calls[i].id \in Ids
    /\ \A id \in Ids :
          LET tr == opened[id].tracer
              list == _tracer_shippers[tr]
          IN  IF OnStack(id)
              THEN CallsOf(id) = {}
              ELSE /\ Cardinality(CallsOf(id)) = Len(list)
                   /\ \A p \in 1..Len(list) :
                         Cardinality({ i \in CallsOf(id) :
                                         /\ calls[i].tracer = tr
                                         /\ calls[i].pos = p
                                         /\ calls[i].sink = list[p] }) = 1
    /\ (\A tr \in Tracers : _context_stack[tr] = << >>) =>
          \A tr \in Tracers : \A p \in 1..Len(_tracer_shippers[tr]) :
              Cardinality({ i \in 1..Len(calls) :
                              calls[i].tracer = tr /\ calls[i].pos = p })
                  = Cardinality(OpenedBy(tr))

\* two nested scopes, both closed, on a tracer with two sinks: the inner record
\* was shipped first
C1_Witness ==
    /\ Len(contexts) = 2
    /\ \A tr \in Tracers : _context_stack[tr] = << >>
    /\ opened[2].enclosing = << 1 >>
    /\ Len(calls) = 4
    /\ calls[1].id = 2

(* ------------------------------- C2 ------------------------------------ *)
\* C2: the data of every open record and of every record handed to a sink is
\* exactly what was written through current_data while that record was the top
\* of the stack; a record opened inside another is handed to the sinks before
\* the enclosing one; and right after an inner scope closes current_data is
\* again the data of the scope that encloses it.
C2_NestedData ==
    /\ \A id \in Ids : contexts[id][_data_key] = written[id]
    /\ \A i \in 1..Len(calls) : calls[i].payload[_data_key] = written[calls[i].id]
    /\ \A i, j \in 1..Len(calls) :
          (\E n \in 1..Len(opened[calls[j].id].enclosing) :
               opened[calls[j].id].enclosing[n] = calls[i].id) => j < i
    /\ (/\ last.op = "__exit__" /\ last.exc = "none" /\ last.ret # None
        /\ opened[last.ret].enclosing # << >>) =>
          LET outer == opened[last.ret].enclosing
          IN  /\ current_data(last.tracer).exc = "none"
              /\ current_data(last.tracer).ret = outer[Len(outer)]

\* scope 1 encloses scope 2, each was written to while it was the top, with
\* different data, and both records have been shipped
C2_Witness ==
    /\ Len(contexts) = 2
    /\ opened[2].enclosing = << 1 >>
    /\ written[1] # EmptyDict
    /\ written[2] # EmptyDict
    /\ DOMAIN written[1] # DOMAIN written[2]
    /\ CallsOf(1) # {}
    /\ CallsOf(2) # {}

(* ------------------------------- C3 ------------------------------------ *)
\* C3: for every closed scope, every sink of the list that does not raise was
\* called with the record and returned, whatever the raising sinks before or
\* after it did; every raising call left one line on the tracer's diagnostic
\* log; and a close of an open scope never ends with an error for the caller.
C3_SinkIsolation ==
    /\ \A id \in Ids : ~OnStack(id) =>
          LET list == _tracer_shippers[opened[id].tracer]
          IN  \A p \in 1..Len(list) :
                  list[p] # "abstract" =>
                      \E i \in CallsOf(id) :
                          /\ calls[i].pos = p
                          /\ calls[i].sink = list[p]
                          /\ calls[i].outcome # "raised"
    /\ Cardinality({ i \in 1..Len(calls) : calls[i].outcome = "raised" })
          = Cardinality({ n \in 1..Len(log) :
                            log[n].logger = "TracerContextManager"
                            /\ log[n].sink # "none" })
    /\ (last.op = "__exit__" /\ last.ret # None) => last.exc = "none"

\* the first sink of the list raised on a record, the second sink received
\* that same record, and the close returned normally
C3_Witness ==
    /\ Len(calls) >= 2
    /\ calls[1].sink = "abstract" /\ calls[1].outcome = "raised"
    /\ calls[2].sink = "custom" /\ calls[2].outcome = "delivered"
    /\ calls[2].id = calls[1].id
    /\ last.op = "__exit__" /\ last.exc = "none"

(* ------------------------------- C4 ------------------------------------ *)
\* C4: every record handed to a sink has exactly the nine reserved keys, and a
\* record whose scope is still open has none of the enrichment keys (only
\* start_time and data).
C4_ReservedKeys ==
    /\ \A i \in 1..Len(calls) : DOMAIN calls[i].payload = ReservedKeys
    /\ \A id \in Ids :
          OnStack(id) => DOMAIN contexts[id] = { _start_time_key, _data_key }
    /\ \A id \in Ids :
          OnStack(id) => DOMAIN contexts[id] \cap EnrichmentKeys = {}

\* one record has been shipped while another scope is still open
C4_Witness ==
    /\ calls # << >>
    /\ \E id \in Ids : OnStack(id)

(* ------------------------------- C5 ------------------------------------ *)
\* C5: whenever a close hands a record to the sinks, the data mapping each sink
\* is given is the data mapping the record held just before the close, the
\* record keeps that data afterwards, and the other keys of what the sink is
\* given are the eight remaining reserved keys.
C5_DataRoundTrip ==
    [][ \A i \in (Len(calls) + 1)..Len(calls') :
            LET c == calls'[i]
            IN  /\ c.payload[_data_key] = contexts[c.id][_data_key]
                /\ contexts'[c.id][_data_key] = contexts[c.id][_data_key]
                /\ DOMAIN c.payload \ {_data_key} = ReservedKeys \ {_data_key}
      ]_vars

\* a sink was handed a record whose data has both keys the caller wrote
C5_Witness ==
    \E i \in 1..Len(calls) : DOMAIN calls[i].payload[_data_key] = Keys

(* ------------------------------- C6 ------------------------------------ *)
\* C6: a read of current_data on a tracer with no open scope ends with an
\* IndexError and returns no mapping, and the step changes neither the stack
\* nor any record nor what was dispatched or logged.
C6_EmptyRead ==
    [][ (last'.op = "current_data" /\ _context_stack[last'.tracer] = << >>) =>
            /\ last'.exc = "IndexError"
            /\ last'.ret = None
            /\ UNCHANGED << _context_stack, contexts, calls, log >>
      ]_vars

\* current_data was read, and failed, after every opened scope had been closed
C6_Witness ==
    /\ Len(contexts) >= 1
    /\ \A tr \in Tracers : _context_stack[tr] = << >>
    /\ calls # << >>
    /\ last.op = "current_data"
    /\ last.exc = "IndexError"

(* ------------------------------- C7 ------------------------------------ *)
\* C7: a close on a tracer whose stack is empty ends with an IndexError for the
\* caller, hands nothing to any sink, changes no record and leaves the stack
\* empty.
C7_EmptyClose ==
    [][ (/\ last' # last
         /\ last'.op = "__exit__"
         /\ _context_stack[last'.tracer] = << >>) =>
            /\ last'.exc = "IndexError"
            /\ calls' = calls
            /\ contexts' = contexts
            /\ _context_stack'[last'.tracer] = << >>
      ]_vars

\* a close failed on the empty stack left by an earlier, successful close
C7_Witness ==
    /\ calls # << >>
    /\ \A tr \in Tracers : _context_stack[tr] = << >>
    /\ last.op = "__exit__"
    /\ last.exc = "IndexError"

(* ------------------------------- C8 ------------------------------------ *)
\* the call site a sink was shown in a payload
PayloadSite(payload) ==
    [ file |-> payload[_file_key], line |-> payload[_line_key],
      function_name |-> payload[_function_key] ]

\* C8 as claimed: the call site of every record handed to a sink is the place
\* where its scope was opened.
C8_OpenSite ==
    \A i \in 1..Len(calls) :
        PayloadSite(calls[i].payload) = opened[calls[i].id].site

\* C8 as amended: the call site of every record handed to a sink is the frame
\* that called __exit__ for that record, the place from which its scope was
\* closed.
C8_CloseSite ==
    \A i \in 1..Len(calls) :
        /\ calls[i].id \in DOMAIN closed
        /\ PayloadSite(calls[i].payload) = closed[calls[i].id].site

\* a record opened at one call site and closed from another was handed to a sink
C8_Witness ==
    \E i \in 1..Len(calls) :
        /\ calls[i].id \in DOMAIN closed
        /\ closed[calls[i].id].site # opened[calls[i].id].site

(* ------------------------------- C9 ------------------------------------ *)
\* C9: whatever a sink is handed has already been popped, enriched and
\* converted, once: its scope is off the stack, it carries the enrichment
\* keys, its start_time is the ISO string of the time the scope was opened and
\* its duration is a number of seconds; every sink of the list is shown the
\* same converted record, which is what the record still is afterwards.
C9_ConvertedOnce ==
    \A i \in 1..Len(calls) :
        LET c == calls[i]
        IN  /\ ~OnStack(c.id)
            /\ EnrichmentKeys \subseteq DOMAIN c.payload
            /\ c.payload[_start_time_key] = << "str", opened[c.id].at >>
            /\ c.payload[_duration_key][1] = "float"
            /\ c.payload = contexts[c.id]

\* a sink was handed a record that was opened at time 0 and took one tick
C9_Witness ==
    \E i \in 1..Len(calls) :
        /\ calls[i].payload[_start_time_key] = << "str", 0 >>
        /\ calls[i].payload[_duration_key] = << "float", 1 >>

(* ------------------------------- C10 ----------------------------------- *)
\* C10: the invocations of sinks come in blocks, one block per close: within a
\* block the sinks are called in the order of the tracer's list, first to last,
\* all with the same record; a block is complete before the next one starts;
\* and the latest block is that of the record closed last.
C10_RegistrationOrder ==
    /\ \A i \in 1..Len(calls) :
          LET c == calls[i]
              list == _tracer_shippers[c.tracer]
          IN  /\ c.pos \in 1..Len(list)
              /\ c.sink = list[c.pos]
              /\ c.pos > 1 =>
                    /\ i > 1
                    /\ calls[i - 1].id = c.id
                    /\ calls[i - 1].pos = c.pos - 1
              /\ (c.pos = 1 /\ i > 1) =>
                    /\ calls[i - 1].id # c.id
                    /\ calls[i - 1].pos =
                          Len(_tracer_shippers[calls[i - 1].tracer])
              /\ i = Len(calls) => c.pos = Len(list)
    /\ (last.op = "__exit__" /\ last.ret # None /\ calls # << >>) =>
          calls[Len(calls)].id = last.ret

\* two closes on a tracer whose list is abstract, custom: four invocations, the
\* two of the first record before the two of the second
C10_Witness ==
    /\ Len(calls) = 4
    /\ calls[1].sink = "abstract" /\ calls[2].sink = "custom"
    /\ calls[3].sink = "abstract" /\ calls[4].sink = "custom"
    /\ calls[1].id = calls[2].id
    /\ calls[3].id = calls[4].id
    /\ calls[1].id # calls[3].id


\* C11 (as the code has it): however the threads' first constructions
\* interleave, each class's diagnostic logger is made and configured at most
\* once: its logger carries at most one handler, cls._logger is assigned at most
\* once (so never replaced), and once it is set it is the logger of that class's
\* name with exactly one handler; a class of which some thread has finished
\* constructing an object has its logger.
C11_OncePerClass ==
    \A c \in Classes :
        /\ assigned[c] <= 1
        /\ LoggerName(c) \in DOMAIN loggers => loggers[LoggerName(c)] <= 1
        /\ _logger[c] # "None" =>
               /\ _logger[c] = LoggerName(c)
               /\ assigned[c] = 1
               /\ loggers[LoggerName(c)] = 1
        /\ \A th \in DOMAIN boot :
               c \in boot[th].made => _logger[c] = LoggerName(c)

\* C11, the case: one thread has created, configured and assigned a class's
\* logger and still holds the lock while another thread waits to initialise
\* the same class
C11_Witness ==
    \E th1, th2 \in DOMAIN boot :
        /\ th1 # th2
        /\ boot[th1].pc = "release"
        /\ boot[th2].pc = "with lock"
        /\ BootClass(th1) = BootClass(th2)
        /\ assigned[BootClass(th1)] = 1

\* C11 as stated: one diagnostic logger for the whole process
C11_OneLoggerProcessWide == Cardinality(DOMAIN loggers) <= 1



\* C12: a console sink never lets a failure of json.dumps out: invoked by the
\* dispatch loop it either prints the record or, when the record cannot be
\* serialised, leaves one line on the ConsoleTracer logger, and the sinks after
\* it in the list are invoked all the same; called directly it returns without
\* an exception; and for payload None it prints nothing and logs nothing.
C12_ConsoleAbsorbs ==
    /\ \A i \in 1..Len(calls) :
           calls[i].sink = "console" =>
               /\ calls[i].outcome =
                      IF JsonSerializable(calls[i].payload) THEN "delivered"
                      ELSE "absorbed"
               /\ calls[i].outcome = "absorbed" =>
                      /\ \E l \in 1..Len(log) :
                             log[l] = [logger |-> "ConsoleTracer",
                                       sink |-> "console", id |-> calls[i].id]
                      /\ \A l \in 1..Len(log) :
                             log[l].id = calls[i].id /\ log[l].sink = "console"
                                 => log[l].logger = "ConsoleTracer"
                      /\ \A q \in 1..Len(stdout) : stdout[q] # calls[i].id
               /\ calls[i].pos < Len(_tracer_shippers[calls[i].tracer]) =>
                      /\ i < Len(calls)
                      /\ calls[i + 1].id = calls[i].id
                      /\ calls[i + 1].pos = calls[i].pos + 1
    /\ last.op = "__exit__" /\ last.ret # None => last.exc = "none"
    /\ last.op = "trace" => last.exc = "none"
    /\ \A q \in 1..Len(stdout) : stdout[q] # None
    /\ \A l \in 1..Len(log) : log[l].id # None

\* C12, the case: the dispatch loop has handed a console sink a record that
\* json.dumps rejects, and the program has just called a console sink with None
C12_Witness ==
    /\ \E i \in 1..Len(calls) :
           calls[i].sink = "console" /\ calls[i].outcome = "absorbed"
    /\ last.op = "trace"
    /\ last.payload = None



\* C13: when reading the cmdline failed during construction, the tracer exists
\* all the same (it has its sink list, its empty stack or what was pushed
\* since, and its pid), the first line on the TracerContextManager logger is
\* that failure's, the tracer's process name is the empty string, and every
\* record it has dispatched carries the empty process name and the pid taken
\* at construction.
C13_ProcessNameFallback ==
    ~ cmdline.ok =>
        \A tr \in Tracers :
            /\ tr \in DOMAIN _tracer_shippers
            /\ tr \in DOMAIN _context_stack
            /\ __pid[tr] = ProcessId
            /\ __process_name[tr] = << >>
            /\ Len(log) >= 1
            /\ log[1] = [logger |-> "TracerContextManager", sink |-> "none",
                         id |-> None]
            /\ \A i \in 1..Len(calls) :
                   calls[i].tracer = tr =>
                       /\ calls[i].payload[_process_name_key] = << >>
                       /\ calls[i].payload[_pid_key] = ProcessId

\* C13, the case: the cmdline could not be read and the tracer has since
\* dispatched a record
C13_Witness ==
    /\ ~ cmdline.ok
    /\ Len(calls) >= 1
    /\ calls[1].payload[_process_name_key] = << >>



\* the contexts of a tracer that a successful __exit__ has popped
ClosedBy(tr) == { id \in DOMAIN closed : opened[id].tracer = tr }

\* the depth of each tracer's stack is its opens minus its successful closes
DepthIsOpensMinusCloses ==
    \A tr \in DOMAIN _context_stack :
        Len(_context_stack[tr]) =
            Cardinality(OpenedBy(tr)) - Cardinality(ClosedBy(tr))

\* C14: used from one thread, a tracer's stack is as deep as its opens minus
\* its successful closes; a step that opens a scope makes the stack of that
\* tracer one deeper by appending the new context, a step that closes one
\* (dispatch to the sinks included) removes exactly the top, and every other
\* step (a read or an update of current_data, a failed close, the clock)
\* leaves all stacks as they were.
C14_DepthAccounting ==
    [][ /\ DepthIsOpensMinusCloses'
        /\ \A tr \in DOMAIN _context_stack :
               LET before == _context_stack[tr]
                   after == _context_stack'[tr]
                   opens == Len(opened') > Len(opened)
                            /\ opened'[Len(opened')].tracer = tr
                   closes == \E id \in DOMAIN closed' \ DOMAIN closed :
                                 opened[id].tracer = tr
               IN  /\ opens => /\ Len(after) = Len(before) + 1
                               /\ after = Append(before, Len(opened'))
                   /\ closes => /\ Len(after) = Len(before) - 1
                                /\ after = SubSeq(before, 1, Len(before) - 1)
                   /\ ~ opens /\ ~ closes => after = before
      ]_vars

\* C14, the case: two scopes were opened and one of them closed, and the sinks
\* were handed its record
C14_Witness ==
    /\ Len(opened) = 2
    /\ Cardinality(DOMAIN closed) = 1
    /\ Len(calls) >= 1
    /\ \E tr \in DOMAIN _context_stack : Len(_context_stack[tr]) = 1



\* C15: a scope whose with block raised is closed like any other: its record
\* is off the stack and was handed exactly once to each sink of the tracer's
\* list; right after that close the caller is left with the very exception of
\* the block, and the stack is what it was before the scope was opened.
C15_ErrorPropagates ==
    /\ \A id \in DOMAIN closed :
           closed[id].exc # "none" =>
               /\ ~ OnStack(id)
               /\ \A pos \in 1..Len(_tracer_shippers[opened[id].tracer]) :
                      Cardinality({ i \in CallsOf(id) : calls[i].pos = pos }) = 1
               /\ Cardinality(CallsOf(id)) =
                      Len(_tracer_shippers[opened[id].tracer])
    /\ last.op = "__exit__" /\ last.ret # None =>
           /\ last.exc = closed[last.ret].exc
           /\ closed[last.ret].exc # "none" =>
                  _context_stack[last.tracer] = opened[last.ret].enclosing

\* C15, the case: the block of a nested scope raised, and the scope has just
\* been closed by a tracer with two sinks
C15_Witness ==
    /\ last.op = "__exit__"
    /\ last.ret # None
    /\ closed[last.ret].exc = "ValueError"
    /\ opened[last.ret].enclosing # << >>
    /\ Len(_tracer_shippers[last.tracer]) = 2



\* C16: with two tracers that hold the same sink object, a step made through
\* one tracer (an open, a read or a write of current_data, a close) leaves the
\* other tracer's stack and the contents of the other tracer's open records as
\* they were, and writes only into a record the acting tracer opened; every
\* record a sink was handed came from the tracer that opened it and holds as
\* data exactly what was written into it.
C16_InstanceLocal ==
    [][ /\ \A tr \in DOMAIN _context_stack :
               tr # last'.tracer =>
                   /\ _context_stack'[tr] = _context_stack[tr]
                   /\ \A id \in OpenedBy(tr) : contexts'[id] = contexts[id]
                   /\ \A id \in OpenedBy(tr) : written'[id] = written[id]
        /\ \A i \in 1..Len(calls') :
               /\ calls'[i].tracer = opened'[calls'[i].id].tracer
               /\ calls'[i].payload[_data_key] = written'[calls'[i].id]
      ]_vars

\* C16, the case: both tracers have a scope open, data was written through one
\* of them, and the other has closed its scope and handed it to the shared sink
C16_Witness ==
    \E a, b \in DOMAIN _context_stack :
        /\ a # b
        /\ _tracer_shippers[a] = _tracer_shippers[b]
        /\ \E id \in OpenedBy(a) : OnStack(id) /\ written[id] # EmptyDict
        /\ \E id \in OpenedBy(b) : id \in DOMAIN closed /\ CallsOf(id) # {}



\* C17: a tracer has one stack for all threads. Whichever thread opened it, the
\* scope a thread's write lands in is the one on top of the tracer's stack; a
\* close pops the top, leaving the stack as it was when that scope was opened,
\* and the record it hands to the sinks names the closing thread; so a thread
\* can write into, and close, a scope another thread opened.
C17_NoThreadPartition ==
    /\ last.op = "update" =>
           /\ _context_stack[last.tracer] # << >>
           /\ last.ret = _context_stack[last.tracer][Len(_context_stack[last.tracer])]
           /\ written[last.ret] # EmptyDict
    /\ last.op = "__exit__" /\ last.ret # None =>
           /\ _context_stack[last.tracer] = opened[last.ret].enclosing
           /\ closed[last.ret].thread = last.thread
    /\ \A i \in 1..Len(calls) :
           calls[i].payload[_thread_key] = closed[calls[i].id].thread

\* C17, the case: a thread has closed, and so dispatched, a scope another
\* thread opened, and has just written into a further scope of that thread
C17_Witness ==
    /\ last.op = "update"
    /\ opened[last.ret].thread # last.thread
    /\ \E id \in DOMAIN closed :
           /\ closed[id].thread = last.thread
           /\ opened[id].thread # last.thread
           /\ CallsOf(id) # {}



\* the duration a dispatched record carries, in seconds
DurationOf(id) == contexts[id][_duration_key][2]

\* C18: the duration of a dispatched record is the clock reading at the close
\* of its scope minus the reading at the open of that same scope, as a number
\* of seconds; as the clock never goes back it is not negative, and the
\* duration of a scope is at least that of each scope nested in it.
C18_Duration ==
    /\ \A i \in 1..Len(calls) :
           LET id == calls[i].id
           IN  /\ calls[i].payload[_duration_key] =
                      << "float", closed[id].at - opened[id].at >>
               /\ calls[i].payload[_duration_key][2] >= 0
    /\ \A outer, inner \in DOMAIN closed :
           (\E k \in 1..Len(opened[inner].enclosing) :
                opened[inner].enclosing[k] = outer)
               => DurationOf(outer) >= DurationOf(inner)

\* C18, the case: a scope and a scope nested in it were both closed and
\* dispatched, the clock having advanced while the outer one was open
C18_Witness ==
    \E outer, inner \in DOMAIN closed :
        /\ \E k \in 1..Len(opened[inner].enclosing) :
               opened[inner].enclosing[k] = outer
        /\ CallsOf(outer) # {} /\ CallsOf(inner) # {}
        /\ DurationOf(outer) > DurationOf(inner)


====
